---- MODULE Spec2Model ----
(***************************************************************************)
(* WeatherApp: an Express backend (GET /weather) that reshapes the first   *)
(* 5*8 records of an upstream forecast, and a React client that arms a     *)
(* one-shot timer which fetches the forecast and reads it aloud.           *)
(***************************************************************************)
EXTENDS Integers, Sequences, FiniteSets, TLC

VARIABLES
    city,          \* useState('London'): the city text field
    accent,        \* useState('british_male'): the selected accent key
    weather,       \* useState([]): whatever setWeather stored last
    scheduleTime,  \* useState(''): the datetime-local field
    now,           \* the wall clock read by new Date()
    voices,        \* window.speechSynthesis.getVoices()
    timers,        \* the setTimeout callbacks armed so far, each with the
                   \* closure (city, accent, weather) of its render
    requests,      \* the GET /weather calls made so far, with the upstream
                   \* reply the handler got and the responses it sent
    sink,          \* the utterances handed to window.speechSynthesis.speak
    alertOpen      \* the blocking alert() of scheduleSpeech is on screen

vars == <<city, accent, weather, scheduleTime, now, voices, timers, requests,
          sink, alertOpen>>

----------------------------------------------------------------------------
(* Bounds of the model. Time is counted in ticks; TimerWidth is the width  *)
(* in bits of the signed integer setTimeout keeps its delay in, 32 in the  *)
(* browser, scaled down with the clock.                                    *)

MaxTimers == 2
MaxTimersWithEdits == 1
MaxTime == 2
MaxRequests == 2
MaxVoices == 2
ExtraRecords == 1
TimerWidth == 2

(* Program constants *)

Days == 5
SlotsPerDay == 8

Min(a, b) == IF a < b THEN a ELSE b

RECURSIVE Pow2(_)
Pow2(n) == IF n = 0 THEN 1 ELSE 2 * Pow2(n - 1)

----------------------------------------------------------------------------
(* JSON values that travel between backend and client *)

JsonArray(items) == [kind |-> "array", items |-> items, error |-> ""]
JsonError(msg) == [kind |-> "object", items |-> <<>>, error |-> msg]

(* weather.length > 0: an array with elements; an object has no length *)
LengthPositive(w) == w.kind = "array" /\ Len(w.items) > 0

----------------------------------------------------------------------------
(* Upstream provider: what axios.get can come back with *)

Descriptions == <<"clear sky", "light rain", "few clouds">>

UpstreamRecord(i) ==
    [dt_txt |-> i,
     main |-> <<[temp |-> 10 + i, feels_like |-> 8 + i]>>,
     weather |-> <<[description |-> Descriptions[(i % 3) + 1]]>>]

Damage(kind, r) ==
    CASE kind = "nomain" -> [r EXCEPT !.main = <<>>]
      [] kind = "noweather" -> [r EXCEPT !.weather = <<>>]
      [] OTHER -> r

UpstreamList(k, pos, kind) ==
    [i \in 1..k |-> IF i = pos THEN Damage(kind, UpstreamRecord(i))
                    ELSE UpstreamRecord(i)]

MaxK == Days * SlotsPerDay + ExtraRecords

ListLengths == {0, 2} \cup ((Days * SlotsPerDay)..MaxK)
Damages == {<<2, "noweather">>, <<Days * SlotsPerDay, "nomain">>,
            <<Days * SlotsPerDay, "noweather">>,
            <<Days * SlotsPerDay + 1, "nomain">>}

UpstreamLists ==
    {UpstreamList(k, 0, "ok") : k \in ListLengths} \cup
    {UpstreamList(k, d[1], d[2]) : k \in ListLengths, d \in Damages}

(* no response at all: connection refused, or a timeout raised by the     *)
(* network stack                                                           *)
NetworkError(code) ==
    [kind |-> "error", code |-> code, status |-> 0, hasList |-> FALSE,
     list |-> <<>>]
HttpReply(status, hasList, list) ==
    [kind |-> "response", code |-> "", status |-> status, hasList |-> hasList,
     list |-> list]
NoReply ==
    [kind |-> "none", code |-> "", status |-> 0, hasList |-> FALSE,
     list |-> <<>>]

AllReplies ==
    {NetworkError("ECONNREFUSED"), NetworkError("ETIMEDOUT"),
     HttpReply(404, FALSE, <<>>), HttpReply(401, FALSE, <<>>),
     HttpReply(200, FALSE, <<>>)} \cup
    {HttpReply(200, TRUE, l) : l \in UpstreamLists}

FewReplies ==
    {NetworkError("ECONNREFUSED"), HttpReply(200, TRUE, <<>>),
     HttpReply(200, TRUE, UpstreamList(1, 0, "ok")),
     HttpReply(200, TRUE, UpstreamList(2, 0, "ok"))}

----------------------------------------------------------------------------
(* Backend: app.get('/weather') *)

(* axios.get rejects on a network error and on any status outside 2xx *)
AxiosRejects(u) == u.kind = "error" \/ u.status < 200 \/ u.status > 299

(* slice forgotten: the whole upstream list *)
SliceAll(s, end) == s

(* Array.prototype.slice(0, end) *)
SliceTo(s, end) == SubSeq(s, 1, Min(end, Len(s)))

SliceEnd == Days * SlotsPerDay

(* item.main.temp / item.weather[0].description throw on a missing part *)
ItemThrows(item) == Len(item.main) = 0 \/ Len(item.weather) = 0

ForecastSlot(item) ==
    [date |-> item.dt_txt,
     temperature |-> item.main[1].temp,
     description |-> item.weather[1].description,
     feels_like |-> item.main[1].feels_like]

MapSlots(items) == [i \in 1..Len(items) |-> ForecastSlot(items[i])]

Response(status, body) == [status |-> status, body |-> body]

(* res.json without res.status(500) *)
ErrorResponseOk == Response(200, JsonError("Error fetching weather data"))

ErrorResponse == Response(500, JsonError("Error fetching weather data"))

(* the try block: every statement that can throw runs before res.json *)
TryThrows(u) ==
    \/ AxiosRejects(u)
    \/ ~u.hasList
    \/ \E i \in 1..Len(SliceTo(u.list, SliceEnd)) :
           ItemThrows(SliceTo(u.list, SliceEnd)[i])

(* the responses the handler sends for one settled upstream call *)
HandlerSends(u) ==
    IF TryThrows(u) THEN <<ErrorResponse>>
    ELSE <<Response(200, JsonArray(MapSlots(SliceTo(u.list, SliceEnd))))>>

----------------------------------------------------------------------------
(* Client: voice table and speakWeather *)

accents ==
    [british_male |-> "Google UK English Male",
     british_female |-> "Google UK English Female",
     british_slang |-> "Google UK English Male",
     french_male |-> "Google français",
     french_female |-> "Google français",
     italian_male |-> "Google italiano Male",
     italian_female |-> "Google italiano Female",
     jamaican_male |-> "Google US English Male",
     jamaican_female |-> "Google US English Female"]

AccentKeys == DOMAIN accents

(* the first platform voice whatever its name *)
FindFirstVoice(vs, name) == IF Len(vs) > 0 THEN 1 ELSE 0

(* Array.prototype.find: index of the first voice with that name, 0 if none *)
FindVoice(vs, name) ==
    IF \E i \in 1..Len(vs) : vs[i].name = name
    THEN CHOOSE i \in 1..Len(vs) :
             /\ vs[i].name = name
             /\ \A j \in 1..(i - 1) : vs[j].name # name
    ELSE 0

(* new Date(item.date).toLocaleDateString(): the calendar day of a 3-hour slot *)
LocaleDateString(dt) == (dt - 1) \div SlotsPerDay

Sentence(item) ==
    [date |-> LocaleDateString(item.date),
     temperature |-> item.temperature,
     feels_like |-> item.feels_like,
     description |-> item.description]

UtteranceText(c, w) ==
    [city |-> c, sentences |-> [i \in 1..Len(w.items) |-> Sentence(w.items[i])]]

(* what speakWeather submits to speechSynthesis.speak, run by caller `by` *)
SpeakWeather(by, c, a, w, vs) ==
    IF LengthPositive(w)
    THEN <<[by |-> by, text |-> UtteranceText(c, w),
            voice |-> FindVoice(vs, accents[a])]>>
    ELSE <<>>

----------------------------------------------------------------------------
(* Client: scheduleSpeech and the timer it arms *)

(* the datetime-local field: <<>> is the empty string, <<t>> names instant t *)
NewDate(s) ==
    IF Len(s) = 0 THEN [valid |-> FALSE, time |-> 0]
    ELSE [valid |-> TRUE, time |-> s[1]]

CurrentDate == [valid |-> TRUE, time |-> now]

(* scheduleDate >= now *)
DateNotLess(a, b) == a.valid /\ b.valid /\ a.time >= b.time

(* scheduleDate > now; any comparison with an Invalid Date is false *)
DateGreater(a, b) == a.valid /\ b.valid /\ a.time > b.time

(* setTimeout keeps its delay in a signed integer of TimerWidth bits (32 in *)
(* the browser) and treats a negative delay as 0                           *)
SetTimeoutDelay(d) ==
    LET w == d % Pow2(TimerWidth)
        s == IF w >= Pow2(TimerWidth - 1) THEN w - Pow2(TimerWidth) ELSE w
    IN  IF s < 0 THEN 0 ELSE s

(* the closure of the render in which the schedule button was clicked *)
NewTimer(delay) ==
    [city |-> city, accent |-> accent, weather |-> weather,
     target |-> now + delay, due |-> now + SetTimeoutDelay(delay),
     state |-> "armed", logged |-> 0]

(* clearTimeout on whatever was armed before arming the new timer *)
ArmCancelling(ts, t) ==
    Append([i \in 1..Len(ts) |->
               IF ts[i].state = "armed" THEN [ts[i] EXCEPT !.state = "idle"]
               ELSE ts[i]], t)

(* setTimeout adds a timer and leaves the others alone *)
Arm(ts, t) == Append(ts, t)

ScheduleSpeech ==
    LET scheduleDate == NewDate(scheduleTime) IN
    /\ ~alertOpen
    /\ IF DateGreater(scheduleDate, CurrentDate)
       THEN /\ timers' = Arm(timers, NewTimer(scheduleDate.time - CurrentDate.time))
               /\ UNCHANGED <<city, accent, weather, scheduleTime, now, voices,
                           requests, sink, alertOpen>>
       ELSE /\ alertOpen' = TRUE
            /\ UNCHANGED <<city, accent, weather, scheduleTime, now, voices,
                           timers, requests, sink>>

(* alert() blocks the page's only thread until the user dismisses it *)
DismissAlert ==
    /\ alertOpen
    /\ alertOpen' = FALSE
    /\ UNCHANGED <<city, accent, weather, scheduleTime, now, voices, timers,
                   requests, sink>>

Cities == {"London", "Paris"}
AccentChoices == {"british_male", "french_female"}
ScheduleInputs == {<<>>} \cup {<<t>> : t \in 0..MaxTime}

SetCity(c) ==
    /\ ~alertOpen
    /\ c # city
    /\ city' = c
    /\ UNCHANGED <<accent, weather, scheduleTime, now, voices, timers,
                   requests, sink, alertOpen>>

HandleAccentChange(newAccent) ==
    /\ ~alertOpen
    /\ newAccent # accent
    /\ accent' = newAccent
    /\ UNCHANGED <<city, weather, scheduleTime, now, voices, timers,
                   requests, sink, alertOpen>>

SetScheduleTime(s) ==
    /\ ~alertOpen
    /\ s # scheduleTime
    /\ scheduleTime' = s
    /\ UNCHANGED <<city, accent, weather, now, voices, timers, requests,
                   sink, alertOpen>>

Tick ==
    /\ now < MaxTime
    /\ now' = now + 1
    /\ UNCHANGED <<city, accent, weather, scheduleTime, voices, timers,
                   requests, sink, alertOpen>>

----------------------------------------------------------------------------
(* Client: the timer callback, fetchWeather().then(speakWeather) *)

(* the city of the text field when the timer fires *)
FetchCityLive(i) == city

(* the city interpolated into the fetch URL *)
FetchCity(i) == timers[i].city

NewRequest(by, c) ==
    [timer |-> by, city |-> c, phase |-> "sent",
     upstream |-> NoReply, sent |-> <<>>]

(* a one-shot timer is gone once it has run; its closure lives on *)
Fired(t) == [t EXCEPT !.state = "fetching", !.target = 0, !.due = 0]

TimerFire(i) ==
    /\ ~alertOpen
    /\ timers[i].state = "armed"
    /\ now >= timers[i].due
    /\ timers' = [timers EXCEPT ![i] = Fired(timers[i])]
    /\ requests' = Append(requests, NewRequest(i, FetchCity(i)))
    /\ UNCHANGED <<city, accent, weather, scheduleTime, now, voices, sink,
                   alertOpen>>

(* speakWeather as the callback of timer i sees it *)
Spoken(i) ==
    SpeakWeather(i, timers[i].city, timers[i].accent, timers[i].weather, voices)

AfterSpeak(i) == IF Spoken(i) = <<>> THEN "idle" ELSE "speaking"

(* fetch rejects: the catch block logs, then speakWeather runs *)
FetchReject(r) ==
    LET i == requests[r].timer IN
    /\ ~alertOpen
    /\ requests[r].phase = "sent"
    /\ i # 0
    /\ requests' = [requests EXCEPT ![r].phase = "failed"]
    /\ timers' = [timers EXCEPT ![i].logged = @ + 1, ![i].state = AfterSpeak(i)]
    /\ sink' = sink \o Spoken(i)
    /\ UNCHANGED <<city, accent, weather, scheduleTime, now, voices, alertOpen>>

(* fetch resolves with whatever status: response.json(), setWeather(data), *)
(* then speakWeather runs                                                  *)
FetchResolve(r) ==
    LET i == requests[r].timer IN
    /\ ~alertOpen
    /\ requests[r].phase = "responded"
    /\ i # 0
    /\ requests' = [requests EXCEPT ![r].phase = "delivered"]
    /\ weather' = requests[r].sent[1].body
    /\ timers' = [timers EXCEPT ![i].state = AfterSpeak(i)]
    /\ sink' = sink \o Spoken(i)
    /\ UNCHANGED <<city, accent, scheduleTime, now, voices, alertOpen>>

(* the speech sink finishes the utterance on its own *)
UtteranceEnd(i) ==
    /\ timers[i].state = "speaking"
    /\ timers' = [timers EXCEPT ![i].state = "idle"]
    /\ UNCHANGED <<city, accent, weather, scheduleTime, now, voices, requests,
                   sink, alertOpen>>

----------------------------------------------------------------------------
(* Backend: one request through the handler *)

HttpGet(c) ==
    /\ Len(requests) < MaxRequests
    /\ requests' = Append(requests, NewRequest(0, c))
    /\ UNCHANGED <<city, accent, weather, scheduleTime, now, voices, timers,
                   sink, alertOpen>>

(* the request reaches the handler, which awaits axios.get *)
BackendHandle(r) ==
    /\ requests[r].phase = "sent"
    /\ requests' = [requests EXCEPT ![r].phase = "upstream"]
    /\ UNCHANGED <<city, accent, weather, scheduleTime, now, voices, timers,
                   sink, alertOpen>>

(* an axios timeout that settles a call the provider never answers *)
AwaitingOrTimedOut(r) == requests[r].phase \in {"upstream", "hung"}

(* the handler goes on only when the awaited axios promise settles *)
AwaitingUpstream(r) == requests[r].phase = "upstream"

UpstreamSettle(r, u) ==
    /\ AwaitingUpstream(r)
    /\ requests' = [requests EXCEPT ![r].phase = "responded",
                                    ![r].upstream = u,
                                    ![r].sent = @ \o HandlerSends(u)]
    /\ UNCHANGED <<city, accent, weather, scheduleTime, now, voices, timers,
                   sink, alertOpen>>

(* the provider never answers this call *)
UpstreamHang(r) ==
    /\ requests[r].phase = "upstream"
    /\ requests' = [requests EXCEPT ![r].phase = "hung"]
    /\ UNCHANGED <<city, accent, weather, scheduleTime, now, voices, timers,
                   sink, alertOpen>>

----------------------------------------------------------------------------------------------------------------------------------------------
(* Specifications *)

VoiceNames == {"Google UK English Male", "Google UK English Female",
               "Google français", "Microsoft David"}
Voice(n) == [name |-> n]

RECURSIVE VoiceListsUpTo(_)
VoiceListsUpTo(n) ==
    IF n = 0 THEN {<<>>}
    ELSE VoiceListsUpTo(n - 1) \cup
         {Append(l, Voice(a)) : l \in VoiceListsUpTo(n - 1), a \in VoiceNames}

VoiceLists == VoiceListsUpTo(MaxVoices)

InstalledVoices == <<Voice("Google UK English Female"), Voice("Google UK English Male")>>

Init ==
    /\ city = "London"
    /\ accent = "british_male"
    /\ weather = JsonArray(<<>>)
    /\ scheduleTime = <<>>
    /\ now = 0
    /\ voices = InstalledVoices
    /\ timers = <<>>
    /\ requests = <<>>
    /\ sink = <<>>
    /\ alertOpen = FALSE

(* scheduler, fetch and backend, the city and accent left as loaded *)
Next ==
    \/ \E s \in ScheduleInputs : SetScheduleTime(s)
    \/ (ScheduleSpeech /\ Len(timers') <= MaxTimers)
    \/ DismissAlert
    \/ Tick
    \/ \E i \in 1..Len(timers) : TimerFire(i)
    \/ \E i \in 1..Len(timers) : UtteranceEnd(i)
    \/ \E r \in 1..Len(requests) : FetchReject(r)
    \/ \E r \in 1..Len(requests) : FetchResolve(r)
    \/ \E r \in 1..Len(requests) : BackendHandle(r)
    \/ \E r \in 1..Len(requests) : \E u \in FewReplies : UpstreamSettle(r, u)
    \/ \E r \in 1..Len(requests) : UpstreamHang(r)

Spec == Init /\ [][Next]_vars

(* the same with the user editing city and accent at any moment *)
NextEdits ==
    \/ \E c \in Cities : SetCity(c)
    \/ \E a \in AccentChoices : HandleAccentChange(a)
    \/ \E s \in ScheduleInputs : SetScheduleTime(s)
    \/ (ScheduleSpeech /\ Len(timers') <= 1 + MaxTimersWithEdits)
    \/ DismissAlert
    \/ Tick
    \/ \E i \in 1..Len(timers) : TimerFire(i)
    \/ \E i \in 1..Len(timers) : UtteranceEnd(i)
    \/ \E r \in 1..Len(requests) : FetchReject(r)
    \/ \E r \in 1..Len(requests) : FetchResolve(r)
    \/ \E r \in 1..Len(requests) : BackendHandle(r)
    \/ \E r \in 1..Len(requests) : \E u \in FewReplies : UpstreamSettle(r, u)
    \/ \E r \in 1..Len(requests) : UpstreamHang(r)

(* the page after a first announcement for London, set for time 1, has run *)
(* to its end                                                              *)
FirstList == UpstreamList(2, 0, "ok")

InitEdits ==
    /\ city = "London"
    /\ accent = "british_male"
    /\ weather = JsonArray(MapSlots(FirstList))
    /\ scheduleTime = <<1>>
    /\ now = MaxTime - 1
    /\ voices = InstalledVoices
    /\ timers = <<[city |-> "London", accent |-> "british_male",
                   weather |-> JsonArray(<<>>), target |-> 0, due |-> 0,
                   state |-> "idle", logged |-> 0]>>
    /\ requests = <<[timer |-> 1, city |-> "London", phase |-> "delivered",
                     upstream |-> HttpReply(200, TRUE, FirstList),
                     sent |-> HandlerSends(HttpReply(200, TRUE, FirstList))]>>
    /\ sink = <<>>
    /\ alertOpen = FALSE

SpecEdits == InitEdits /\ [][NextEdits]_vars

(* the backend alone, serving any HTTP caller against any upstream reply *)
NextServer ==
    \/ \E c \in Cities : HttpGet(c)
    \/ \E r \in 1..Len(requests) : BackendHandle(r)
    \/ \E r \in 1..Len(requests) : \E u \in AllReplies : UpstreamSettle(r, u)
    \/ \E r \in 1..Len(requests) : UpstreamHang(r)

SpecServer == Init /\ [][NextServer]_vars

(* speakWeather alone, over every accent key and platform voice list *)
Bundles == {JsonArray(MapSlots(UpstreamList(k, 0, "ok"))) : k \in 1..2}

InitVoice ==
    /\ city \in Cities
    /\ accent \in AccentKeys
    /\ weather \in Bundles
    /\ scheduleTime = <<>>
    /\ now = 0
    /\ voices \in VoiceLists
    /\ timers = <<>>
    /\ requests = <<>>
    /\ sink = <<>>
    /\ alertOpen = FALSE

SpeakWeatherNow ==
    /\ sink = <<>>
    /\ sink' = sink \o SpeakWeather(0, city, accent, weather, voices)
    /\ UNCHANGED <<city, accent, weather, scheduleTime, now, voices, timers,
                   requests, alertOpen>>

NextVoice == SpeakWeatherNow

SpecVoice == InitVoice /\ [][NextVoice]_vars

----------------------------------------------------------------------------
(* Properties *)

SlotOf(rec) ==
    [date |-> rec.dt_txt, temperature |-> rec.main[1].temp,
     description |-> rec.weather[1].description,
     feels_like |-> rec.main[1].feels_like]

Answered(q) == q.phase \in {"responded", "delivered"}

UsableCount(u) == IF Len(u.list) < 40 THEN Len(u.list) ELSE 40

UsableReply(u) ==
    /\ u.kind = "response" /\ u.status >= 200 /\ u.status <= 299 /\ u.hasList
    /\ \A i \in 1..UsableCount(u) :
           Len(u.list[i].main) >= 1 /\ Len(u.list[i].weather) >= 1

(* C1: a usable upstream reply with K records is answered 200 with exactly *)
(* min(K, 40) slots, the i-th slot being date, temperature, description and *)
(* feels_like of the i-th upstream record                                   *)
C1_FirstFortyReshaped ==
    \A r \in 1..Len(requests) :
        LET q == requests[r]
            u == q.upstream
        IN  (Answered(q) /\ UsableReply(u)) =>
                /\ Len(q.sent) = 1
                /\ q.sent[1].status = 200
                /\ q.sent[1].body.kind = "array"
                /\ Len(q.sent[1].body.items) = UsableCount(u)
                /\ \A i \in 1..UsableCount(u) :
                       q.sent[1].body.items[i] = SlotOf(u.list[i])

C1_Witness ==
    /\ \E r \in 1..Len(requests) :
           /\ requests[r].phase = "responded"
           /\ Len(requests[r].upstream.list) = 41
           /\ Len(requests[r].upstream.list[41].main) = 0
           /\ requests[r].sent[1].status = 200
           /\ Len(requests[r].sent[1].body.items) = 40
    /\ \E r \in 1..Len(requests) :
           /\ requests[r].phase = "responded"
           /\ Len(requests[r].upstream.list) = 2
           /\ requests[r].sent[1].status = 200
           /\ Len(requests[r].sent[1].body.items) = 2

(* C2: every upstream failure is answered 500 with an error body and no    *)
(* slots; a request gets one response once the upstream call settles, none *)
(* before, and that response is the full 200 list or the 500 error         *)
C2_FailureIs500 ==
    \A r \in 1..Len(requests) :
        LET q == requests[r]
            u == q.upstream
        IN  /\ Len(q.sent) = (IF Answered(q) THEN 1 ELSE 0)
            /\ (Answered(q) /\ ~UsableReply(u)) =>
                   /\ q.sent[1].status = 500
                   /\ q.sent[1].body.kind = "object"
                   /\ q.sent[1].body.error # ""
                   /\ q.sent[1].body.items = <<>>
            /\ Answered(q) =>
                   \/ q.sent[1].status = 500 /\ q.sent[1].body.kind = "object"
                   \/ /\ q.sent[1].status = 200
                      /\ q.sent[1].body.kind = "array"
                      /\ Len(q.sent[1].body.items) = UsableCount(u)

C2_Witness ==
    /\ \E r \in 1..Len(requests) :
           /\ requests[r].phase = "responded"
           /\ requests[r].upstream.status = 200
           /\ Len(requests[r].upstream.list) >= 40
           /\ Len(requests[r].upstream.list[40].weather) = 0
           /\ requests[r].sent = <<ErrorResponse>>
    /\ \E r \in 1..Len(requests) :
           /\ requests[r].phase = "responded"
           /\ requests[r].upstream.code = "ETIMEDOUT"
           /\ requests[r].sent = <<ErrorResponse>>

NotInFuture == Len(scheduleTime) = 0 \/ scheduleTime[1] <= now

(* C3: scheduleSpeech with an empty field or a time not after now raises   *)
(* the alert and arms nothing; no step from such a state adds a timer, and *)
(* every fetch and every utterance belongs to a timer that was armed       *)
C3_RejectedArmsNothing ==
    /\ [][(ScheduleSpeech /\ NotInFuture) =>
              (alertOpen' /\ timers' = timers /\ requests' = requests
                          /\ sink' = sink)]_vars
    /\ [][NotInFuture => Len(timers') = Len(timers)]_vars
    /\ [](/\ \A r \in 1..Len(requests) : requests[r].timer \in 1..Len(timers)
          /\ \A k \in 1..Len(sink) : sink[k].by \in 1..Len(timers)
          /\ Len(requests) <= Len(timers))

C3_Witness ==
    /\ alertOpen
    /\ now > 0
    /\ scheduleTime = <<now>>
    /\ timers = <<>>
    /\ requests = <<>>

(* C4: a timer armed for target = now + delta makes its one fetch when it  *)
(* leaves the armed state, and does so no earlier than its target          *)
C4_CallNotBeforeTarget ==
    [][\A i \in 1..Len(timers) :
           (timers[i].state = "armed" /\ timers'[i].state # "armed") =>
               /\ now >= timers[i].target
               /\ Len(requests') = Len(requests) + 1
               /\ requests'[Len(requests')].timer = i]_vars

SpeaksItems(k, c, items) ==
    /\ sink[k].text.city = c
    /\ Len(sink[k].text.sentences) = Len(items)
    /\ \A j \in 1..Len(items) :
           /\ sink[k].text.sentences[j].temperature = items[j].temperature
           /\ sink[k].text.sentences[j].feels_like = items[j].feels_like
           /\ sink[k].text.sentences[j].description = items[j].description

(* C5: once a timer's fetch has come back 200 with a non-empty bundle, the *)
(* sink holds an utterance of that timer built from that very bundle       *)
C5_SpeaksFetchedBundle ==
    \A r \in 1..Len(requests) :
        LET q == requests[r] IN
        (q.timer # 0 /\ q.phase = "delivered" /\ q.sent[1].status = 200
                     /\ Len(q.sent[1].body.items) > 0) =>
            \E k \in 1..Len(sink) :
                /\ sink[k].by = q.timer
                /\ SpeaksItems(k, q.city, q.sent[1].body.items)

(* C6: once a timer's fetch has failed (rejected, or answered 500), the    *)
(* error is logged, nothing of that timer reaches the sink, and the timer  *)
(* is idle                                                                 *)
C6_FailureLoggedOnly ==
    \A r \in 1..Len(requests) :
        LET q == requests[r] IN
        (q.timer # 0 /\ (q.phase = "failed" \/
                         (q.phase = "delivered" /\ q.sent[1].status = 500))) =>
            /\ timers[q.timer].logged = 1
            /\ timers[q.timer].state = "idle"
            /\ \A k \in 1..Len(sink) : sink[k].by # q.timer

C8_VoiceByTable ==
    /\ [](\A k \in 1..Len(sink) :
              IF \E v \in 1..Len(voices) : voices[v].name = accents[accent]
              THEN /\ sink[k].voice \in 1..Len(voices)
                   /\ voices[sink[k].voice].name = accents[accent]
              ELSE sink[k].voice = 0)
    /\ [][Len(sink') = Len(sink) + 1]_vars

C8_Witness ==
    /\ accent = "british_male"
    /\ voices = <<Voice("Microsoft David"), Voice("Google UK English Male")>>
    /\ Len(sink) = 1
    /\ sink[1].voice = 2

Unresolved(r) ==
    /\ requests[r].sent = <<>>
    /\ requests[r].timer # 0 =>
           /\ timers[requests[r].timer].state = "fetching"
           /\ timers[requests[r].timer].logged = 0
           /\ \A k \in 1..Len(sink) : sink[k].by # requests[r].timer

(* C9: a call the provider never answers stays that way: no response is    *)
(* ever sent for it, and the timer that made it stays fetching, with       *)
(* nothing logged and nothing spoken                                       *)
C9_HungStaysUnresolved ==
    /\ [](\A r \in 1..Len(requests) :
              requests[r].phase = "hung" => Unresolved(r))
    /\ [][\A r \in 1..Len(requests) :
              requests[r].phase = "hung" => requests'[r] = requests[r]]_vars

C9_Witness ==
    /\ Len(requests) = 2
    /\ requests[1].phase = "hung"
    /\ timers[requests[1].timer].state = "fetching"
    /\ requests[2].phase = "delivered"
    /\ requests[2].sent[1].status = 200
    /\ timers[requests[2].timer].state = "idle"

====
